---- MODULE Spec2Model ----
(***************************************************************************)
(* A model of src/functions.py: the weather-data derivations               *)
(* view_station_date_ranges, ideal_temp, non_ideal_temp_days,              *)
(* tmin_annual_plot and usda_plant_hardiness_zone, together with the       *)
(* dataset merger the specification describes.                             *)
(*                                                                         *)
(* A DataFrame is a sequence of records (its rows, in order).  Strings     *)
(* that the code compares, sorts or rewrites (STATION, NAME, column        *)
(* names) are sequences of one-character strings, so that ordering and     *)
(* str.replace are computed and not assumed.  A missing metric value is    *)
(* NaN; a mean is the pair <<sum, count>> standing for sum / count, and a  *)
(* missing mean is the empty tuple.                                        *)
(***************************************************************************)
EXTENDS Integers, Sequences, FiniteSets, TLC

VARIABLES df, out, regular

vars == <<df, out, regular>>

(***************************************************************************)
(* Values                                                                  *)
(***************************************************************************)

\* The missing value of a numeric column (numpy's NaN), outside every
\* temperature the model draws.
NaN == 0 - 1000

isnull(v) == v = NaN

\* Comparisons of a column value with a number: a comparison with NaN is False.
Ge(v, x) == ~isnull(v) /\ v >= x

Le(v, x) == ~isnull(v) /\ v <= x

\* The code point of a character (Python compares strings by code point).
Ord(c) ==
    CASE c = " " -> 32
      [] c = "1" -> 49
      [] c = "2" -> 50
      [] c = "A" -> 65
      [] c = "B" -> 66
      [] c = "H" -> 72
      [] c = "I" -> 73
      [] c = "M" -> 77
      [] c = "N" -> 78
      [] c = "S" -> 83
      [] c = "T" -> 84
      [] c = "Z" -> 90
      [] c = "_" -> 95
      [] c = "a" -> 97
      [] c = "d" -> 100
      [] c = "e" -> 101
      [] c = "i" -> 105
      [] c = "n" -> 110
      [] c = "o" -> 111
      [] c = "r" -> 114
      [] c = "s" -> 115
      [] c = "y" -> 121

\* a < b for two strings: lexicographic by code point, a proper prefix first.
StrLess(a, b) ==
    \E k \in 1..(Len(b)) :
        /\ k <= Len(a) + 1
        /\ \A j \in 1..(k - 1) : a[j] = b[j]
        /\ IF k = Len(a) + 1 THEN TRUE ELSE Ord(a[k]) < Ord(b[k])

\* a < b for two ISO dates "YYYY-MM-DD", held as <<year, month, day>>: the
\* string comparison of the zero-padded fields is the lexicographic one.
DateLess(a, b) ==
    \/ a[1] < b[1]
    \/ a[1] = b[1] /\ a[2] < b[2]
    \/ a[1] = b[1] /\ a[2] = b[2] /\ a[3] < b[3]

\* pd.to_datetime of an ISO date: a point on the time axis (a day number
\* on a 12 x 31 grid, which keeps calendar order).
to_datetime(d) == (d[1] * 12 + (d[2] - 1)) * 31 + (d[3] - 1)

(***************************************************************************)
(* DataFrame helpers                                                       *)
(***************************************************************************)

\* The distinct elements of s in order of first appearance
\* (Series.unique, DataFrame.drop_duplicates with keep="first").
RECURSIVE Unique(_)
Unique(s) ==
    IF s = <<>> THEN <<>>
    ELSE LET init == Unique(SubSeq(s, 1, Len(s) - 1))
             last == s[Len(s)]
         IN  IF \E i \in 1..(Len(s) - 1) : s[i] = last THEN init
             ELSE Append(init, last)

drop_duplicates(s) == Unique(s)

\* sort_values: the rows of s in ascending order, ties in their original
\* order.  less[i][j] tells whether row i sorts before row j.
SortBy(s, less) ==
    LET pos(i) == 1 + Cardinality({j \in DOMAIN s :
                        \/ less[j][i]
                        \/ ~less[i][j] /\ j < i})
    IN  [k \in DOMAIN s |-> s[CHOOSE i \in DOMAIN s : pos(i) = k]]

\* The order of rows by a string key and by a number key.
ByString(keys) ==
    [i \in DOMAIN keys |-> [j \in DOMAIN keys |-> StrLess(keys[i], keys[j])]]

ByNumber(keys) ==
    [i \in DOMAIN keys |-> [j \in DOMAIN keys |-> keys[i] < keys[j]]]

\* The column of a frame as a sequence.
Col(s, c) == [i \in DOMAIN s |-> s[i][c]]

\* The builtin min / max over the first i dates of a column: the first
\* extreme element met.
RECURSIVE PyMin(_, _)
PyMin(s, i) ==
    IF i = 1 THEN s[1]
    ELSE LET m == PyMin(s, i - 1)
         IN  IF DateLess(s[i], m) THEN s[i] ELSE m

RECURSIVE PyMax(_, _)
PyMax(s, i) ==
    IF i = 1 THEN s[1]
    ELSE LET m == PyMax(s, i - 1)
         IN  IF DateLess(m, s[i]) THEN s[i] ELSE m

RECURSIVE Concat(_)
Concat(ss) ==
    IF ss = <<>> THEN <<>> ELSE Head(ss) \o Concat(Tail(ss))

\* No result: the state before a derivation is called.
NoResult == [op |-> "none"]

(***************************************************************************)
(* view_station_date_ranges                                                *)
(***************************************************************************)

\* The mutation of NonNullRows that filters nothing.
KeepAllRows(d, metric) == d

\* df[~df[metric].isnull()]
NonNullRows(d, metric) == SelectSeq(d, LAMBDA r : ~isnull(r[metric]))

\* The rows of one station with min_date and max_date assigned
\* (the body of the loop over df.STATION.unique()).
StationRows(d, station) ==
    LET a      == SelectSeq(d, LAMBDA r : r.STATION = station)
        dates  == Col(a, "DATE")
        lo     == to_datetime(PyMin(dates, Len(dates)))
        hi     == to_datetime(PyMax(dates, Len(dates)))
    IN  [i \in DOMAIN a |->
            [STATION |-> a[i].STATION, NAME |-> a[i].NAME,
             min_date |-> lo, max_date |-> hi]]

\* The whole function.  With no station left after the filter the loop never
\* runs, station_list stays the column-less pd.DataFrame(), and selecting
\* the four columns from it raises KeyError.
view_station_date_ranges(d, metric) ==
    LET f            == NonNullRows(d, metric)
        stations     == Unique(Col(f, "STATION"))
        station_list == Concat([k \in DOMAIN stations |-> StationRows(f, stations[k])])
        deduplicated == drop_duplicates(station_list)
        return_df    == SortBy(deduplicated, ByString(Col(deduplicated, "STATION")))
    IN  IF stations = <<>>
        THEN [op |-> "view_station_date_ranges", status |-> "KeyError",
              metric |-> metric, table |-> <<>>]
        ELSE [op |-> "view_station_date_ranges", status |-> "ok",
              metric |-> metric, table |-> return_df]

(***************************************************************************)
(* Specification SpecRanges: station date ranges over every frame of at    *)
(* most MaxRangeRows rows, in every row order.                             *)
(***************************************************************************)

MaxRangeRows == 3

S1 == <<"S", "1">>

S2 == <<"S", "2">>

NameA == <<"A">>

NameB == <<"B">>

RangeDates == {<<2019, 12, 31>>, <<2020, 1, 2>>, <<2020, 1, 10>>}

\* The (STATION, NAME) pairs of the frames: a station with two names and a
\* name shared by two stations.
RangeStations == { <<S1, NameA>>, <<S1, NameB>>, <<S2, NameA>> }

RangeRows ==
    { [STATION |-> s[1], NAME |-> s[2], DATE |-> d, year |-> d[1],
       TMIN |-> NaN, TMAX |-> v] :
        s \in RangeStations, d \in RangeDates, v \in {NaN, 70} }

InitFrame ==
    /\ df = <<>>
    /\ out = NoResult
    /\ regular = TRUE

LoadRangeRow ==
    /\ Len(df) < MaxRangeRows
    /\ \E r \in RangeRows : df' = Append(df, r)
    /\ out' = NoResult
    /\ UNCHANGED regular

CallViewStationDateRanges ==
    /\ out = NoResult
    /\ out' = view_station_date_ranges(df, "TMAX")
    /\ UNCHANGED <<df, regular>>

NextRanges == LoadRangeRow \/ CallViewStationDateRanges

SpecRanges == InitFrame /\ [][NextRanges]_vars

\* C2: every output row of view_station_date_ranges carries, as min_date and
\* max_date, the earliest and the latest DATE among its station's rows with a
\* non-null metric, and every station with such a row has an output row.
C2_DateRange ==
    (out.op = "view_station_date_ranges" /\ out.status = "ok") =>
        /\ \A k \in DOMAIN out.table :
             LET t == out.table[k]
                 I == {i \in DOMAIN df : df[i].STATION = t.STATION
                                         /\ ~isnull(df[i][out.metric])}
             IN  /\ I # {}
                 /\ \A i \in I : /\ t.min_date <= to_datetime(df[i].DATE)
                                 /\ to_datetime(df[i].DATE) <= t.max_date
                 /\ \E i \in I : t.min_date = to_datetime(df[i].DATE)
                 /\ \E i \in I : t.max_date = to_datetime(df[i].DATE)
        /\ \A i \in DOMAIN df :
             ~isnull(df[i][out.metric]) =>
                 \E k \in DOMAIN out.table : out.table[k].STATION = df[i].STATION

\* C2's case: a station whose non-null rows are out of date order, next to a
\* null-metric row of the same station that is earlier than all of them.
C2_Witness ==
    /\ out.op = "view_station_date_ranges"
    /\ out.status = "ok"
    /\ \E i, j, n \in DOMAIN df :
         /\ i < j
         /\ df[i].STATION = df[j].STATION
         /\ df[n].STATION = df[i].STATION
         /\ ~isnull(df[i].TMAX)
         /\ ~isnull(df[j].TMAX)
         /\ isnull(df[n].TMAX)
         /\ DateLess(df[j].DATE, df[i].DATE)
         /\ DateLess(df[n].DATE, df[j].DATE)
         /\ \E k \in DOMAIN out.table :
              /\ out.table[k].STATION = df[i].STATION
              /\ out.table[k].min_date = to_datetime(df[j].DATE)
              /\ out.table[k].max_date = to_datetime(df[i].DATE)

\* C3: the output of view_station_date_ranges has exactly one row per station
\* identifier that survives the filter, in ascending order of identifier.
C3_OneRowPerStation ==
    (out.op = "view_station_date_ranges" /\ out.status = "ok") =>
        /\ \A k, l \in DOMAIN out.table :
             out.table[k].STATION = out.table[l].STATION => k = l
        /\ \A k, l \in DOMAIN out.table :
             k < l => ~StrLess(out.table[l].STATION, out.table[k].STATION)

(***************************************************************************)
(* Group-by helpers                                                        *)
(***************************************************************************)

RECURSIVE SumSeq(_)
SumSeq(s) == IF s = <<>> THEN 0 ELSE Head(s) + SumSeq(Tail(s))

\* a / b < c / d for two means with positive counts.
MeanLess(x, y) == x[1] * y[2] < y[1] * x[2]

\* The group keys of groupby(["NAME", "year"]), sorted (sort=True).
NameYearKeys(d) ==
    LET keys == Unique([i \in DOMAIN d |-> <<d[i].NAME, d[i].year>>])
    IN  SortBy(keys, [i \in DOMAIN keys |-> [j \in DOMAIN keys |->
                        \/ StrLess(keys[i][1], keys[j][1])
                        \/ keys[i][1] = keys[j][1] /\ keys[i][2] < keys[j][2]]])

\* groupby(["NAME", "year"], as_index=False).agg({"DATE": "count"}):
\* one row per group, holding the number of the group's rows with a DATE.
CountByNameYear(d) ==
    LET keys == NameYearKeys(d)
    IN  [k \in DOMAIN keys |->
            [NAME |-> keys[k][1], year |-> keys[k][2],
             DATE |-> Len(SelectSeq(d, LAMBDA r : r.NAME = keys[k][1]
                                                  /\ r.year = keys[k][2]))]]

\* The distinct NAME values of a frame, sorted: the keys of groupby("NAME").
SortedNames(d) ==
    LET names == Unique(Col(d, "NAME"))
    IN  SortBy(names, ByString(names))

\* groupby("NAME").agg({c: "mean"}): one row per name, in name order, holding
\* the mean of column c over the rows of that name.
MeanByName(d, c) ==
    LET names == SortedNames(d)
    IN  [k \in DOMAIN names |->
            LET g == SelectSeq(d, LAMBDA r : r.NAME = names[k])
            IN  [NAME |-> names[k], mean |-> <<SumSeq(Col(g, c)), Len(g)>>]]

(***************************************************************************)
(* ideal_temp                                                              *)
(***************************************************************************)

\* The mutation of InIdealRange with the upper bound exclusive.
InIdealRangeExclusive(v, ideal_min_limit, ideal_max_limit) ==
    Ge(v, ideal_min_limit) /\ ~isnull(v) /\ v < ideal_max_limit

\* (df[c] >= ideal_min_limit) & (df[c] <= ideal_max_limit)
InIdealRange(v, ideal_min_limit, ideal_max_limit) ==
    Ge(v, ideal_min_limit) /\ Le(v, ideal_max_limit)

\* The mutation of IdealWeatherAvg that averages over every year the station
\* has observations in (years without an ideal day counted as zero).
IdealWeatherAvgZeroFilled(d, ideal_weather2) ==
    LET names == SortedNames(ideal_weather2)
    IN  [k \in DOMAIN names |->
            LET g == SelectSeq(ideal_weather2, LAMBDA r : r.NAME = names[k])
                y == {d[i].year : i \in {j \in DOMAIN d : d[j].NAME = names[k]}}
            IN  [NAME |-> names[k],
                 mean |-> <<SumSeq(Col(g, "ideal_days")), Cardinality(y)>>]]

\* ideal_weather2.groupby("NAME").agg({"ideal_days": "mean"}): the mean over
\* the rows of ideal_weather2 alone; the frame d takes no part in it.
IdealWeatherAvg(d, ideal_weather2) == MeanByName(ideal_weather2, "ideal_days")

\* The tables ideal_temp derives: the yearly counts it plots and the sorted
\* per-station mean it returns.
ideal_temp(d, tmin_or_tmax, ideal_min_limit, ideal_max_limit) ==
    LET ideal_weather1 ==
            SelectSeq(d, LAMBDA r : InIdealRange(r[tmin_or_tmax],
                                                 ideal_min_limit, ideal_max_limit))
        counted == CountByNameYear(ideal_weather1)
        ideal_weather2 ==
            [k \in DOMAIN counted |->
                [NAME |-> counted[k].NAME, year |-> counted[k].year,
                 ideal_days |-> counted[k].DATE]]
        avg == IdealWeatherAvg(d, ideal_weather2)
        ideal_weather_avg ==
            SortBy(avg, [i \in DOMAIN avg |-> [j \in DOMAIN avg |->
                            MeanLess(avg[j].mean, avg[i].mean)]])
    IN  [op |-> "ideal_temp", status |-> "ok", metric |-> tmin_or_tmax,
         lower |-> ideal_min_limit, upper |-> ideal_max_limit,
         yearly |-> ideal_weather2, table |-> ideal_weather_avg]

(***************************************************************************)
(* Specification SpecIdeal: ideal-day counts over frames of at most        *)
(* MaxIdealRows rows in file order (by station name, year and value), with *)
(* values at and just outside the bounds.                                  *)
(***************************************************************************)

MaxIdealRows == 4

\* The total order rows are loaded in: by NAME, year, TMIN, TMAX.
RowLeq(a, b) ==
    \/ StrLess(a.NAME, b.NAME)
    \/ /\ a.NAME = b.NAME
       /\ \/ a.year < b.year
          \/ /\ a.year = b.year
             /\ \/ a.TMIN < b.TMIN
                \/ a.TMIN = b.TMIN /\ a.TMAX <= b.TMAX

\* Row r may follow the rows of d in a file ordered by RowLeq.
InFileOrder(d, r) == IF d = <<>> THEN TRUE ELSE RowLeq(d[Len(d)], r)

IdealRows ==
    { [STATION |-> S1, NAME |-> n, DATE |-> <<y, 7, 1>>, year |-> y,
       TMIN |-> NaN, TMAX |-> v] :
        n \in {NameA, NameB}, y \in {2020, 2021}, v \in {NaN, 59, 60, 75, 76} }

IdealBounds == {60, 75}

LoadIdealRow ==
    /\ Len(df) < MaxIdealRows
    /\ \E r \in {x \in IdealRows : InFileOrder(df, x)} : df' = Append(df, r)
    /\ out' = NoResult
    /\ UNCHANGED regular

CallIdealTemp ==
    /\ out = NoResult
    /\ \E lo \in IdealBounds, hi \in IdealBounds :
         /\ lo <= hi
         /\ out' = ideal_temp(df, "TMAX", lo, hi)
    /\ UNCHANGED <<df, regular>>

NextIdeal == LoadIdealRow \/ CallIdealTemp

SpecIdeal == InitFrame /\ [][NextIdeal]_vars

\* The rows of (name, year) whose metric lies in [lower, upper] of the last call.
Qualifying(name, year) ==
    {i \in DOMAIN df : /\ df[i].NAME = name
                       /\ df[i].year = year
                       /\ ~isnull(df[i][out.metric])
                       /\ out.lower <= df[i][out.metric]
                       /\ df[i][out.metric] <= out.upper}

\* C1: the ideal_days of every (NAME, year) group is the number of the group's
\* rows with lower <= v <= upper, both inclusive, and every group with such a
\* row is in the table once.
C1_IdealDays ==
    out.op = "ideal_temp" =>
        /\ \A k \in DOMAIN out.yearly :
             out.yearly[k].ideal_days
                 = Cardinality(Qualifying(out.yearly[k].NAME, out.yearly[k].year))
        /\ \A i \in DOMAIN df :
             Qualifying(df[i].NAME, df[i].year) # {} =>
                 Cardinality({k \in DOMAIN out.yearly :
                                 /\ out.yearly[k].NAME = df[i].NAME
                                 /\ out.yearly[k].year = df[i].year}) = 1

\* C1's case: one group with a value at the lower bound, one at the upper
\* bound, one just below and one just above, counted as 2.
C1_Witness ==
    /\ out.op = "ideal_temp"
    /\ out.lower < out.upper
    /\ \E k \in DOMAIN out.yearly :
         LET g == {i \in DOMAIN df : /\ df[i].NAME = out.yearly[k].NAME
                                     /\ df[i].year = out.yearly[k].year}
         IN  /\ out.yearly[k].ideal_days = 2
             /\ \E i \in g : df[i].TMAX = out.lower
             /\ \E i \in g : df[i].TMAX = out.upper
             /\ \E i \in g : df[i].TMAX = out.lower - 1
             /\ \E i \in g : df[i].TMAX = out.upper + 1

\* C8: the mean ideal-day count of a station is the number of its qualifying
\* rows divided by the number of years in which it has a qualifying row.
C8_MeanOverPresentYears ==
    out.op = "ideal_temp" =>
        \A k \in DOMAIN out.table :
            LET name  == out.table[k].NAME
                years == {df[i].year : i \in {j \in DOMAIN df :
                              /\ df[j].NAME = name
                              /\ Qualifying(name, df[j].year) # {}}}
                days  == {i \in DOMAIN df : /\ df[i].NAME = name
                                            /\ i \in Qualifying(name, df[i].year)}
            IN  /\ years # {}
                /\ out.table[k].mean[1] * Cardinality(years)
                       = Cardinality(days) * out.table[k].mean[2]

\* C8's case: a station with observations in two years, qualifying days in
\* only one of them, and a mean above 1 (a zero-filled mean would halve it).
C8_Witness ==
    /\ out.op = "ideal_temp"
    /\ \E k \in DOMAIN out.table :
         LET name == out.table[k].NAME
         IN  /\ out.table[k].mean = <<2, 1>>
             /\ \E i \in DOMAIN df :
                  /\ df[i].NAME = name
                  /\ Qualifying(name, df[i].year) = {}

(***************************************************************************)
(* non_ideal_temp_days                                                     *)
(***************************************************************************)

\* The mutation of Round that truncates (astype(int) without round).
RoundTruncating(m) == m[1] \div m[2]

\* round(x, 0).astype(int) of the mean x = m[1] / m[2]: numpy rounds to the
\* nearest integer and a tie to the even one.
Round(m) ==
    LET q == m[1] \div m[2]
        r == m[1] % m[2]
    IN  IF 2 * r < m[2] THEN q
        ELSE IF 2 * r > m[2] THEN q + 1
        ELSE IF q % 2 = 0 THEN q ELSE q + 1

\* The mutation of Merge that keeps every left row (how="left"), with no hot
\* days where the right side has no row.
MergeLeft(left, right) ==
    Concat([k \in DOMAIN left |->
        IF \E j \in DOMAIN right : right[j].NAME = left[k].NAME
        THEN LET m == SelectSeq(right, LAMBDA r : r.NAME = left[k].NAME)
             IN  [j \in DOMAIN m |->
                    [NAME |-> left[k].NAME,
                     avg_days_too_cold |-> left[k].mean,
                     avg_days_too_hot |-> m[j].mean]]
        ELSE << [NAME |-> left[k].NAME,
                 avg_days_too_cold |-> left[k].mean,
                 avg_days_too_hot |-> <<0, 1>>] >>])

\* too_cold_yearly_avg.merge(too_hot_yearly_avg, on=["NAME"], how="inner"):
\* every pair of a left and a right row of the same NAME, in left order.
Merge(left, right) ==
    Concat([k \in DOMAIN left |->
        LET m == SelectSeq(right, LAMBDA r : r.NAME = left[k].NAME)
        IN  [j \in DOMAIN m |->
                [NAME |-> left[k].NAME,
                 avg_days_too_cold |-> left[k].mean,
                 avg_days_too_hot |-> m[j].mean]]])

non_ideal_temp_days(d, tmin_threshold, tmax_threshold) ==
    LET too_cold            == SelectSeq(d, LAMBDA r : Le(r.TMIN, tmin_threshold))
        too_cold_yearly     == CountByNameYear(too_cold)
        too_cold_yearly_avg == MeanByName(too_cold_yearly, "DATE")
        too_hot             == SelectSeq(d, LAMBDA r : Ge(r.TMAX, tmax_threshold))
        too_hot_yearly      == CountByNameYear(too_hot)
        too_hot_yearly_avg  == MeanByName(too_hot_yearly, "DATE")
        merged              == Merge(too_cold_yearly_avg, too_hot_yearly_avg)
        too == [k \in DOMAIN merged |->
                   LET cold == Round(merged[k].avg_days_too_cold)
                       hot  == Round(merged[k].avg_days_too_hot)
                   IN  [NAME |-> merged[k].NAME,
                        avg_days_too_cold |-> cold,
                        avg_days_too_hot |-> hot,
                        non_ideal_days |-> cold + hot]]
    IN  [op |-> "non_ideal_temp_days", status |-> "ok",
         tmin_threshold |-> tmin_threshold, tmax_threshold |-> tmax_threshold,
         table |-> SortBy(too, ByNumber(Col(too, "non_ideal_days")))]

(***************************************************************************)
(* Specification SpecNonIdeal: non-ideal days over frames of at most       *)
(* MaxNonIdealRows rows in file order, with TMIN and TMAX at and just      *)
(* beside the thresholds.                                                  *)
(***************************************************************************)

MaxNonIdealRows == 5

\* Days that are too cold only, too hot only, or both (a frost before a hot
\* afternoon): TMIN at or one above the threshold 32, TMAX at or one below 90.
NonIdealDays == { <<32, 89>>, <<33, 90>>, <<32, 90>> }

\* The (NAME, year) pairs of the frames: three years of one station and two
\* of the other.
NonIdealYears ==
    ({NameA} \X {2020, 2021, 2022}) \cup ({NameB} \X {2020, 2021})

NonIdealRows ==
    { [STATION |-> S1, NAME |-> k[1], DATE |-> <<k[2], 7, 1>>, year |-> k[2],
       TMIN |-> t[1], TMAX |-> t[2]] :
        k \in NonIdealYears, t \in NonIdealDays }

LoadNonIdealRow ==
    /\ Len(df) < MaxNonIdealRows
    /\ \E r \in {x \in NonIdealRows : InFileOrder(df, x)} : df' = Append(df, r)
    /\ out' = NoResult
    /\ UNCHANGED regular

CallNonIdealTempDays ==
    /\ out = NoResult
    /\ \E lo \in {32}, hi \in {90} : out' = non_ideal_temp_days(df, lo, hi)
    /\ UNCHANGED <<df, regular>>

NextNonIdeal == LoadNonIdealRow \/ CallNonIdealTempDays

SpecNonIdeal == InitFrame /\ [][NextNonIdeal]_vars

\* The too-cold and the too-hot rows of a station under the last call's
\* thresholds, and the years they fall in.
ColdRows(name) ==
    {i \in DOMAIN df : df[i].NAME = name /\ ~isnull(df[i].TMIN)
                       /\ df[i].TMIN <= out.tmin_threshold}

HotRows(name) ==
    {i \in DOMAIN df : df[i].NAME = name /\ ~isnull(df[i].TMAX)
                       /\ df[i].TMAX >= out.tmax_threshold}

YearsOf(I) == {df[i].year : i \in I}

\* v is an integer nearest to rows / years: |v - rows / years| <= 1/2.
NearestTo(v, rows, years) ==
    /\ 2 * v * years <= 2 * rows + years
    /\ 2 * rows - years <= 2 * v * years

\* C4: avg_days_too_cold is the mean yearly count of too-cold rows over the
\* years that have one, rounded to the nearest integer; avg_days_too_hot the
\* same for too-hot rows; non_ideal_days is the sum of the two rounded values.
C4_RoundedAverages ==
    out.op = "non_ideal_temp_days" =>
        \A k \in DOMAIN out.table :
            LET t    == out.table[k]
                cold == ColdRows(t.NAME)
                hot  == HotRows(t.NAME)
            IN  /\ cold # {} /\ hot # {}
                /\ NearestTo(t.avg_days_too_cold, Cardinality(cold),
                             Cardinality(YearsOf(cold)))
                /\ NearestTo(t.avg_days_too_hot, Cardinality(hot),
                             Cardinality(YearsOf(hot)))
                /\ t.non_ideal_days = t.avg_days_too_cold + t.avg_days_too_hot

\* C4's case: a station whose too-cold mean rounds up (5 days over 3 years)
\* and whose too-hot mean rounds down (4 days over 3 years).
C4_Witness ==
    /\ out.op = "non_ideal_temp_days"
    /\ \E k \in DOMAIN out.table :
         LET t == out.table[k]
         IN  /\ Cardinality(ColdRows(t.NAME)) = 5
             /\ Cardinality(YearsOf(ColdRows(t.NAME))) = 3
             /\ t.avg_days_too_cold = 2
             /\ Cardinality(HotRows(t.NAME)) = 4
             /\ Cardinality(YearsOf(HotRows(t.NAME))) = 3
             /\ t.avg_days_too_hot = 1
             /\ t.non_ideal_days = 3

\* C5: a station NAME is in the result exactly when it has a too-cold row and
\* a too-hot row, and then it is there once.
C5_InnerJoin ==
    out.op = "non_ideal_temp_days" =>
        /\ \A i \in DOMAIN df :
             (ColdRows(df[i].NAME) # {} /\ HotRows(df[i].NAME) # {})
                 <=> \E k \in DOMAIN out.table : out.table[k].NAME = df[i].NAME
        /\ \A k \in DOMAIN out.table :
             \E i \in DOMAIN df : df[i].NAME = out.table[k].NAME
        /\ \A k, l \in DOMAIN out.table :
             out.table[k].NAME = out.table[l].NAME => k = l

\* C5's case: one station with both kinds of day, in the result, and one with
\* too-cold days only, absent from it.
C5_Witness ==
    /\ out.op = "non_ideal_temp_days"
    /\ Len(out.table) = 1
    /\ \E i \in DOMAIN df :
         /\ ColdRows(df[i].NAME) # {}
         /\ HotRows(df[i].NAME) = {}
         /\ out.table[1].NAME # df[i].NAME

(***************************************************************************)
(* tmin_annual_plot and usda_plant_hardiness_zone                          *)
(*                                                                         *)
(* A wide table is [columns, data]: the column names in order and, for     *)
(* each name, the column's values by row.                                  *)
(***************************************************************************)

\* rolling(window=30, min_periods=30)
Window == 30

MinPeriods == 30

YearCol == <<"y", "e", "a", "r">>

HardinessZoneSuffix ==
    <<" ", "H", "a", "r", "d", "i", "n", "e", "s", "s", " ", "Z", "o", "n", "e">>

Range(s) == {s[i] : i \in DOMAIN s}

StartsWith(s, old) == Len(old) <= Len(s) /\ SubSeq(s, 1, Len(old)) = old

\* str.replace(old, new) for a non-empty old: every non-overlapping
\* occurrence, from the left.
RECURSIVE Replace(_, _, _)
Replace(s, old, new) ==
    IF s = <<>> THEN <<>>
    ELSE IF StartsWith(s, old)
         THEN new \o Replace(SubSeq(s, Len(old) + 1, Len(s)), old, new)
         ELSE <<Head(s)>> \o Replace(Tail(s), old, new)

\* f"{col.replace('TMIN_', '').replace('_', ' ')} Hardiness Zone"
ZoneCol(col) ==
    Replace(Replace(col, <<"T", "M", "I", "N", "_">>, <<>>), <<"_">>, <<" ">>)
        \o HardinessZoneSuffix

\* The min aggregation of a group's TMIN values: NaN is skipped, and a group
\* with no value at all gives NaN.
AggMin(d, year, name) ==
    LET vals == {d[i].TMIN : i \in {j \in DOMAIN d : /\ d[j].year = year
                                                       /\ d[j].NAME = name
                                                       /\ ~isnull(d[j].TMIN)}}
    IN  IF vals = {} THEN NaN
        ELSE CHOOSE v \in vals : \A w \in vals : v <= w

\* df.pivot_table(index="year", columns="NAME", values="TMIN",
\* aggfunc="min").reset_index(): a row per year and a column per NAME, both
\* sorted; a group whose minimum is NaN is dropped before the reshape, so a
\* year or a NAME with no TMIN value at all has no row or column.
PivotTmin(d) ==
    LET f     == SelectSeq(d, LAMBDA r : ~isnull(r.TMIN))
        year  == Unique(Col(f, "year"))
        years == SortBy(year, ByNumber(year))
        names == SortedNames(f)
    IN  [columns |-> <<YearCol>> \o names,
         data |-> [c \in {YearCol} \cup Range(names) |->
                     IF c = YearCol THEN years
                     ELSE [k \in DOMAIN years |-> AggMin(d, years[k], c)]]]

\* The sum and the number of the observations in the window ending at row i,
\* kept as pandas keeps them: row i is added and row i - Window removed,
\* NaN rows apart.
RECURSIVE RollState(_, _)
RollState(col, i) ==
    IF i = 0 THEN <<0, 0>>
    ELSE LET prev    == RollState(col, i - 1)
             added   == IF isnull(col[i]) THEN prev
                        ELSE <<prev[1] + col[i], prev[2] + 1>>
         IN  IF i > Window /\ ~isnull(col[i - Window])
             THEN <<added[1] - col[i - Window], added[2] - 1>>
             ELSE added

\* The mutation of RollingMean that accepts partial windows (min_periods=1).
RollingMeanPartial(col) ==
    [i \in DOMAIN col |->
        LET st == RollState(col, i)
        IN  IF st[2] >= 1 THEN st ELSE <<>>]

\* col.rolling(window=30, min_periods=30).mean(): the mean of the window's
\* observations where there are at least min_periods of them, else missing.
RollingMean(col) ==
    [i \in DOMAIN col |->
        LET st == RollState(col, i)
        IN  IF st[2] >= MinPeriods THEN st ELSE <<>>]

\* tmin[c] = vals: an existing column is overwritten in place, a new one is
\* appended.
SetColumn(t, c, vals) ==
    [columns |-> IF c \in Range(t.columns) THEN t.columns ELSE Append(t.columns, c),
     data |-> [x \in DOMAIN t.data \cup {c} |-> IF x = c THEN vals ELSE t.data[x]]]

\* The loop over tmin.columns[1:] (the columns as they were before the loop),
\* up to and including the k-th of them.
RECURSIVE ZoneLoop(_, _, _)
ZoneLoop(t, cols, k) ==
    IF k = 0 THEN t
    ELSE LET before == ZoneLoop(t, cols, k - 1)
         IN  SetColumn(before, ZoneCol(cols[k]), RollingMean(before.data[cols[k]]))

\* columns[a:b] of Python, zero-based and clamped.
Slice(s, a, b) ==
    LET hi == IF b > Len(s) THEN Len(s) ELSE b
    IN  IF a >= hi THEN <<>> ELSE SubSeq(s, a + 1, hi)

\* The table tmin_annual_plot returns and the columns it plots.
tmin_annual_plot(d) ==
    LET pivot         == PivotTmin(d)
        tmin          == ZoneLoop(pivot, Tail(pivot.columns), Len(pivot.columns) - 1)
        n             == Cardinality(Range(Col(d, "STATION")))
        all_locations == Slice(tmin.columns, 1, n + 1)
    IN  [op |-> "tmin_annual_plot", status |-> "ok", tmin |-> tmin,
         n |-> n, all_locations |-> all_locations]

\* The columns usda_plant_hardiness_zone plots from the table df and the
\* labels it gives the legend.  columns[-n:] is the last n columns, and with
\* n = 0 all of them.
usda_plant_hardiness_zone(t) ==
    LET n          == (Len(t.columns) - 1) \div 2
        value_vars == Slice(t.columns, n + 1, Len(t.columns))
        legend     == IF n = 0 THEN t.columns
                      ELSE Slice(t.columns, Len(t.columns) - n, Len(t.columns))
    IN  [op |-> "usda_plant_hardiness_zone", status |-> "ok", tmin |-> t,
         n |-> n, value_vars |-> value_vars, legend |-> legend]

\* tmin_annual_plot on a frame with at least one TMIN value.
CallTminAnnualPlot ==
    /\ out = NoResult
    /\ NonNullRows(df, "TMIN") # <<>>
    /\ out' = tmin_annual_plot(df)
    /\ UNCHANGED <<df, regular>>

\* usda_plant_hardiness_zone on the table tmin_annual_plot returned.
CallUsdaPlantHardinessZone ==
    /\ out.op = "tmin_annual_plot"
    /\ out' = usda_plant_hardiness_zone(out.tmin)
    /\ UNCHANGED <<df, regular>>

(***************************************************************************)
(* Specification SpecZones: the column layout of the hardiness table over  *)
(* frames of at most MaxZoneRows rows, with station names that share a     *)
(* derived zone column name and stations that carry more than one name.    *)
(***************************************************************************)

MaxZoneRows == 3

ZoneNames ==
    { NameA, <<"T", "M", "I", "N", "_", "A">>, <<"A", "_", "B">>, <<"A", " ", "B">> }

ZoneRows ==
    { [STATION |-> s, NAME |-> n, DATE |-> <<y, 1, 2>>, year |-> y,
       TMIN |-> v, TMAX |-> NaN] :
        s \in {S1, S2}, n \in ZoneNames, y \in {2020, 2021}, v \in {NaN, 10} }

LoadZoneRow ==
    /\ Len(df) < MaxZoneRows
    /\ \E r \in {x \in ZoneRows : InFileOrder(df, x)} : df' = Append(df, r)
    /\ out' = NoResult
    /\ UNCHANGED regular

NextZones == LoadZoneRow \/ CallTminAnnualPlot \/ CallUsdaPlantHardinessZone

SpecZones == InitFrame /\ [][NextZones]_vars

\* C10: the table of tmin_annual_plot is [year, k annual-minimum columns,
\* k hardiness-zone columns] with k the number of distinct NAME values and of
\* distinct STATION values, so that columns[1 : n + 1] is the annual-minimum
\* columns and usda_plant_hardiness_zone's columns[n + 1 :] is the zone columns.
C10_ColumnLayout ==
    out.op \in {"tmin_annual_plot", "usda_plant_hardiness_zone"} =>
        LET names == Range(Col(df, "NAME"))
            k     == Cardinality(names)
            cols  == out.tmin.columns
        IN  /\ k = Cardinality(Range(Col(df, "STATION")))
            /\ Len(cols) = 1 + 2 * k
            /\ cols[1] = YearCol
            /\ Range(SubSeq(cols, 2, k + 1)) = names
            /\ Range(SubSeq(cols, k + 2, 2 * k + 1)) = {ZoneCol(c) : c \in names}
            /\ out.op = "tmin_annual_plot" =>
                   out.all_locations = SubSeq(cols, 2, k + 1)
            /\ out.op = "usda_plant_hardiness_zone" =>
                   /\ out.value_vars = SubSeq(cols, k + 2, 2 * k + 1)
                   /\ out.legend = out.value_vars

(***************************************************************************)
(* Specification SpecRolling: the rolling hardiness metric over the years  *)
(* 1990 .. 1990 + MaxYears - 1 of two stations.  A regular year has one    *)
(* TMIN observation of each station; at most one year of a frame is        *)
(* irregular: a station without a row, a station or both with a NaN        *)
(* observation, or a second, lower observation of a station.               *)
(***************************************************************************)

MaxYears == 31

NextYear == IF df = <<>> THEN 1990 ELSE df[Len(df)].year + 1

\* The TMIN observed at a station in a year: a fixed pattern of small
\* temperatures, negative and positive.
TminOf(name, y) ==
    IF name = NameA THEN ((y * 7) % 13) - 6 ELSE ((y * 5) % 11) + 3

Obs(station, name, y, v) ==
    [STATION |-> station, NAME |-> name, DATE |-> <<y, 1, 2>>, year |-> y,
     TMIN |-> v, TMAX |-> NaN]

ObsA(y, v) == Obs(S1, NameA, y, v)

ObsB(y, v) == Obs(S2, NameB, y, v)

LoadRegularYear ==
    /\ NextYear < 1990 + MaxYears
    /\ df' = df \o <<ObsA(NextYear, TminOf(NameA, NextYear)),
                     ObsB(NextYear, TminOf(NameB, NextYear))>>
    /\ out' = NoResult
    /\ UNCHANGED regular

LoadIrregularYear ==
    /\ NextYear < 1990 + MaxYears
    /\ regular
    /\ LET y == NextYear
           a == TminOf(NameA, y)
           b == TminOf(NameB, y)
       IN  \E rows \in { <<ObsA(y, a)>>,
                         <<ObsB(y, b)>>,
                         <<ObsA(y, NaN), ObsB(y, b)>>,
                         <<ObsA(y, NaN), ObsB(y, NaN)>>,
                         <<ObsA(y, a), ObsA(y, a - 2), ObsB(y, b)>> } :
               df' = df \o rows
    /\ out' = NoResult
    /\ regular' = FALSE

NextRolling == LoadRegularYear \/ LoadIrregularYear \/ CallTminAnnualPlot

SpecRolling == InitFrame /\ [][NextRolling]_vars

\* The annual minimum of a station in a year, from the observations: the
\* least TMIN value, or none.
AnnualMins(name, y) ==
    {df[i].TMIN : i \in {j \in DOMAIN df : /\ df[j].NAME = name
                                           /\ df[j].year = y
                                           /\ ~isnull(df[j].TMIN)}}

IsAnnualMin(v, name, y) ==
    IF AnnualMins(name, y) = {} THEN isnull(v)
    ELSE v \in AnnualMins(name, y) /\ \A w \in AnnualMins(name, y) : v <= w

RECURSIVE SumRows(_, _, _)
SumRows(col, a, b) == IF a > b THEN 0 ELSE col[b] + SumRows(col, a, b - 1)

\* C6: in each station column the value at a year row is the station's annual
\* minimum TMIN, and the rolling value at row i is the mean of the 30 annual
\* minimums of the rows i - 29 .. i when all 30 are present, and missing
\* otherwise.
C6_RollingMean ==
    out.op = "tmin_annual_plot" =>
        LET t     == out.tmin
            years == t.data[YearCol]
        IN  \A name \in {NameA, NameB} :
              name \in Range(t.columns) =>
                LET col  == t.data[name]
                    zone == t.data[ZoneCol(name)]
                IN  \A i \in DOMAIN years :
                      /\ IsAnnualMin(col[i], name, years[i])
                      /\ IF i >= 30 /\ \A j \in (i - 29)..i : ~isnull(col[j])
                         THEN /\ zone[i] # <<>>
                              /\ zone[i][1] * 30 = SumRows(col, i - 29, i) * zone[i][2]
                         ELSE zone[i] = <<>>

\* C6's case: a table of 30 year rows in which one station has all 30 annual
\* minimums, and a rolling value in the 30th row, and the other has 29 of
\* them and a fully missing rolling column.
C6_Witness ==
    /\ out.op = "tmin_annual_plot"
    /\ Len(out.tmin.data[YearCol]) = 30
    /\ NameA \in Range(out.tmin.columns)
    /\ NameB \in Range(out.tmin.columns)
    /\ \A i \in 1..30 : ~isnull(out.tmin.data[NameA][i])
    /\ out.tmin.data[ZoneCol(NameA)][30] # <<>>
    /\ Cardinality({i \in 1..30 : ~isnull(out.tmin.data[NameB][i])}) = 29
    /\ \A i \in 1..30 : out.tmin.data[ZoneCol(NameB)][i] = <<>>

(***************************************************************************)
(* The dataset merger (section 4.1 of the specification)                   *)
(***************************************************************************)

\* The mutation of DropExactDuplicates that calls two rows duplicates when
\* station, name and date match, whatever their metrics.
DropKeyDuplicates(rows) ==
    LET key(r) == <<r.STATION, r.NAME, r.DATE>>
    IN  SelectSeq([i \in DOMAIN rows |->
                      [row |-> rows[i],
                       first |-> \A j \in 1..(i - 1) : key(rows[j]) # key(rows[i])]],
                  LAMBDA x : x.first)

\* Exact-duplicate rows collapsed to the first seen: two rows are duplicates
\* when every field matches.
DropExactDuplicates(rows) ==
    LET marked == [i \in DOMAIN rows |->
                      [row |-> rows[i],
                       first |-> \A j \in 1..(i - 1) : rows[j] # rows[i]]]
    IN  SelectSeq(marked, LAMBDA x : x.first)

\* The union of an incoming batch and the existing set: the concatenation,
\* new batch first, with exact duplicates collapsed.
update_data(new, existing) ==
    LET kept == DropExactDuplicates(new \o existing)
    IN  [op |-> "update_data", status |-> "ok", new |-> new, existing |-> existing,
         table |-> [i \in DOMAIN kept |-> kept[i].row]]

(***************************************************************************)
(* Specification SpecMerge: merges of frames of at most MaxMergeRows rows, *)
(* which may hold a row more than once, with themselves and with a batch   *)
(* of one row.  Writing the merged set back to its file is outside the     *)
(* transform and changes no frame in memory.                               *)
(***************************************************************************)

MaxMergeRows == 3

MergeRows ==
    { [STATION |-> S1, NAME |-> NameA, DATE |-> d, year |-> d[1],
       TMIN |-> lo, TMAX |-> hi] :
        d \in {<<2020, 1, 2>>, <<2020, 1, 10>>}, lo \in {NaN, 32}, hi \in {70, 71} }

LoadMergeRow ==
    /\ Len(df) < MaxMergeRows
    /\ \E r \in MergeRows : df' = Append(df, r)
    /\ out' = NoResult
    /\ UNCHANGED regular

CallUpdateData ==
    /\ out = NoResult
    /\ \E new \in {df} \cup {<<r>> : r \in MergeRows} :
         out' = update_data(new, df)
    /\ UNCHANGED <<df, regular>>

NextMerge == LoadMergeRow \/ CallUpdateData

SpecMerge == InitFrame /\ [][NextMerge]_vars

\* C9: merging a set with itself yields exactly the distinct rows of the set,
\* each once.
C9_SelfMerge ==
    (out.op = "update_data" /\ out.new = out.existing) =>
        /\ Range(out.table) = Range(out.existing)
        /\ \A i, j \in DOMAIN out.table : out.table[i] = out.table[j] => i = j

\* C9's case: a set merged with itself that holds one row twice and a second
\* row that differs from it in one metric only.
C9_Witness ==
    /\ out.op = "update_data"
    /\ out.new = out.existing
    /\ \E i, j, k \in DOMAIN out.existing :
         /\ i # j
         /\ out.existing[i] = out.existing[j]
         /\ out.existing[k] # out.existing[i]
         /\ out.existing[k].DATE = out.existing[i].DATE
         /\ out.existing[k].TMIN = out.existing[i].TMIN
    /\ Len(out.table) = 2

\* C7: with nothing left after the filter, each of view_station_date_ranges,
\* ideal_temp and non_ideal_temp_days returns an empty table and raises nothing.
C7_EmptyInEmptyOut ==
    /\ (out.op = "view_station_date_ranges" /\ NonNullRows(df, out.metric) = <<>>)
           => (out.status = "ok" /\ out.table = <<>>)
    /\ (out.op = "ideal_temp"
            /\ \A i \in DOMAIN df : Qualifying(df[i].NAME, df[i].year) = {})
           => (out.status = "ok" /\ out.yearly = <<>> /\ out.table = <<>>)
    /\ (out.op = "non_ideal_temp_days"
            /\ \A i \in DOMAIN df : ColdRows(df[i].NAME) = {} /\ HotRows(df[i].NAME) = {})
           => (out.status = "ok" /\ out.table = <<>>)

====
